---- MODULE Spec2Model ----
(***************************************************************************)
(* Model of candidate_models: the base model pool                          *)
(* (candidate_models/base_models/__init__.py) and the merged pool of       *)
(* brain-committed models (candidate_models/model_commitments/__init__.py).*)
(*                                                                         *)
(* Python values are modelled as follows.                                 *)
(*   - a dict is a sequence of [k, v] records in insertion order;          *)
(*   - a float multiplier is the integer number of its hundredths          *)
(*     (0.75 is 75), formatted back to text by FloatRepr / Format03;       *)
(*   - a lambda is a record: its identity (fid), the call it makes and     *)
(*     whether its arguments are literals or module globals read when the  *)
(*     lambda is called (late = TRUE);                                     *)
(*   - None is the string "None" for names and 0 for numbers and handles.  *)
(***************************************************************************)
EXTENDS Integers, Sequences, FiniteSets, TLC

VARIABLES
    pc,                 \* position in the module-level code
    static_table,       \* the entries of the dict literal, lines 102-134
    tuples,             \* the list iterated by the loop of line 135
    i,                  \* index of the running for loop
    _key_functions,     \* dict: identifier -> lambda
    version, multiplier, image_size, identifier, net_name, \* module globals, line 135-153
    key, function,      \* module globals of the loop of line 156
    base_model_pool,    \* UniqueKeyDict: identifier -> LazyLoad
    raised,             \* the exception that ended the last statement, or "None"
    dirs,               \* file system: model name -> state of its weights directory
    op,                 \* the last operation of a client: <<name, key>>
    stats,              \* instrumentation: per key, what realization did
    fs_log,             \* instrumentation: per model name, makedirs and fetch counts
    uses,               \* number of client operations so far
    ml_brain_pool, cornet_brain_pool, \* the two committed pools (dicts)
    brain_translated_pool  \* UniqueKeyDict: the merged pool

vars == <<pc, static_table, tuples, i, _key_functions, version, multiplier,
          image_size, identifier, net_name, key, function, base_model_pool,
          raised, dirs, op, stats, fs_log, uses, ml_brain_pool,
          cornet_brain_pool, brain_translated_pool>>

base_vars == <<static_table, tuples, _key_functions, version, multiplier,
               image_size, identifier, net_name, key, function,
               base_model_pool, dirs, op, stats, fs_log, uses>>

merge_vars == <<ml_brain_pool, cornet_brain_pool, brain_translated_pool>>

None == "None"

----------------------------------------------------------------------------
(* Bounds of the exploration.                                              *)

MaxUses == 4        \* client operations on the populated pool
MaxTableLen == 2    \* length of a drawn descriptor list (SpecTable)
MaxPoolLen == 2     \* entries of a drawn committed pool (SpecMerge)

----------------------------------------------------------------------------
(* Python dict, in insertion order.                                        *)

DictKeys(d) == {d[n].k : n \in 1..Len(d)}

DictHas(d, k) == k \in DictKeys(d)

DictIndex(d, k) == CHOOSE n \in 1..Len(d) : d[n].k = k

DictGet(d, k) == d[DictIndex(d, k)].v

\* dict.__setitem__: a present key keeps its position and takes the new value
DictSet(d, k, v) ==
    IF DictHas(d, k)
    THEN [d EXCEPT ![DictIndex(d, k)] = [k |-> k, v |-> v]]
    ELSE Append(d, [k |-> k, v |-> v])

\* a dict display {k1: v1, k2: v2, ...}: the entries are stored left to right
RECURSIVE DictLiteral(_)
DictLiteral(entries) ==
    IF entries = <<>> THEN <<>>
    ELSE DictSet(DictLiteral(SubSeq(entries, 1, Len(entries) - 1)),
                 entries[Len(entries)].k, entries[Len(entries)].v)

----------------------------------------------------------------------------
(* The lambdas of the descriptor table.                                    *)

Lambda(framework, a1, a2, ptype, size, nname, offset, late) ==
    [fid |-> 0, framework |-> framework, a1 |-> a1, a2 |-> a2,
     preprocessing_type |-> ptype, image_size |-> size, net_name |-> nname,
     labels_offset |-> offset, late |-> late]

NoFunction == Lambda(None, None, None, None, 0, None, 0, FALSE)

Pytorch(fn, size) == Lambda("pytorch", fn, None, None, size, None, 0, FALSE)

Keras(module, fn, size) == Lambda("keras", module, fn, None, size, None, 0, FALSE)

\* TFSlimModel.init(identifier, preprocessing_type, image_size, labels_offset)
\* with literal arguments; net_name and labels_offset default to None and 1
TFSlim(ident, ptype, size, offset) ==
    Lambda("tfslim", ident, None, ptype, size, None, offset, FALSE)

\* line 154: the body names identifier, image_size and net_name, which are
\* module globals looked up when the lambda is called
MobilenetLambda ==
    Lambda("tfslim", None, None, "inception", 0, None, 1, TRUE)

E(k, v) == [k |-> k, v |-> v]

KeyFunctionsLiteral == <<
    E("alexnet", Pytorch("alexnet", 224)),
    E("squeezenet1_0", Pytorch("squeezenet1_0", 224)),
    E("squeezenet1_1", Pytorch("squeezenet1_1", 224)),
    E("resnet-18", Pytorch("resnet18", 224)),
    E("resnet-34", Pytorch("resnet34", 224)),
    E("vgg-16", Keras("vgg16", "VGG16", 224)),
    E("vgg-19", Keras("vgg19", "VGG19", 224)),
    E("xception", Keras("xception", "Xception", 299)),
    E("densenet-121", Keras("densenet", "DenseNet121", 224)),
    E("densenet-169", Keras("densenet", "DenseNet169", 224)),
    E("densenet-201", Keras("densenet", "DenseNet201", 224)),
    E("inception_v1", TFSlim("inception_v1", "inception", 224, 1)),
    E("inception_v2", TFSlim("inception_v2", "inception", 224, 1)),
    E("inception_v3", TFSlim("inception_v3", "inception", 299, 1)),
    E("inception_v4", TFSlim("inception_v4", "inception", 299, 1)),
    E("inception_resnet_v2", TFSlim("inception_resnet_v2", "inception", 299, 1)),
    E("resnet-50_v1", TFSlim("resnet_v1_50", "vgg", 224, 0)),
    E("resnet-101_v1", TFSlim("resnet_v1_101", "vgg", 224, 0)),
    E("resnet-152_v1", TFSlim("resnet_v1_152", "vgg", 224, 0)),
    E("resnet-50_v2", TFSlim("resnet_v2_50", "inception", 299, 1)),
    E("resnet-101_v2", TFSlim("resnet_v2_101", "inception", 299, 1)),
    E("resnet-152_v2", TFSlim("resnet_v2_152", "inception", 299, 1)),
    E("nasnet_mobile", TFSlim("nasnet_mobile", "inception", 331, 1)),
    E("nasnet_large", TFSlim("nasnet_large", "inception", 331, 1)),
    E("pnasnet_large", TFSlim("pnasnet_large", "inception", 331, 1)) >>

\* <<version, multiplier in hundredths, image_size>>
MobilenetTuples == <<
    <<1, 100, 224>>, <<1, 100, 192>>, <<1, 100, 160>>, <<1, 100, 128>>,
    <<1, 75, 224>>, <<1, 75, 192>>, <<1, 75, 160>>, <<1, 75, 128>>,
    <<1, 50, 224>>, <<1, 50, 192>>, <<1, 50, 160>>, <<1, 50, 128>>,
    <<1, 25, 224>>, <<1, 25, 192>>, <<1, 25, 160>>, <<1, 25, 128>>,
    <<2, 140, 224>>,
    <<2, 130, 224>>,
    <<2, 100, 224>>, <<2, 100, 192>>, <<2, 100, 160>>, <<2, 100, 128>>, <<2, 100, 96>>,
    <<2, 75, 224>>, <<2, 75, 192>>, <<2, 75, 160>>, <<2, 75, 128>>, <<2, 75, 96>>,
    <<2, 50, 224>>, <<2, 50, 192>>, <<2, 50, 160>>, <<2, 50, 128>>, <<2, 50, 96>>,
    <<2, 35, 224>>, <<2, 35, 192>>, <<2, 35, 160>>, <<2, 35, 128>>, <<2, 35, 96>> >>

----------------------------------------------------------------------------
(* Formatting of line 149 and line 151.                                    *)

\* repr of the float m/100 as an f-string prints it: "1.0", "0.75", "0.5"
FloatRepr(m) ==
    LET whole == m \div 100
        frac == m % 100
    IN  ToString(whole) \o "." \o
        (IF frac % 10 = 0 THEN ToString(frac \div 10)
         ELSE IF frac < 10 THEN "0" \o ToString(frac)
         ELSE ToString(frac))

\* f"{multiplier * 100:03}": the product is a float, so the text keeps ".0";
\* it is never shorter than the width 3, so no zero is padded
Format03(m) == ToString(m) \o ".0"

Identifier(t) ==
    "mobilenet_v" \o ToString(t[1]) \o "_" \o FloatRepr(t[2]) \o "_" \o ToString(t[3])

NetName(t) ==
    IF (t[1] = 1 /\ t[2] \in {75, 50, 25}) \/ (t[1] = 2 /\ t[2] = 140)
    THEN "mobilenet_v" \o ToString(t[1]) \o "_" \o Format03(t[2])
    ELSE "mobilenet_v" \o ToString(t[1])

----------------------------------------------------------------------------
(* UniqueKeyDict and LazyLoad: imported classes.                           *)

\* UniqueKeyDict.__setitem__: a present key is an error and nothing is stored
UniqueKeyDict_setitem(d, k, v) ==
    IF DictHas(d, k)
    THEN [raised |-> "KeyError", d |-> d]
    ELSE [raised |-> None, d |-> Append(d, [k |-> k, v |-> v])]

\* LazyLoad(load_fnc): nothing is loaded at construction. A pool value is a
\* LazyLoad (lazy = TRUE), which keeps what load_fnc returned, or a plain
\* callable, which keeps nothing
LazyLoad(load_fnc) == [lazy |-> TRUE, load_fnc |-> load_fnc, content |-> 0]

\* LazyLoad._ensure_loaded: load_fnc is called only while there is no content
LazyLoad_needs_load(entry) == entry.content = 0

\* LazyLoad._ensure_loaded: what load_fnc returned becomes the content
LazyLoad_loaded(entry, handle) == [entry EXCEPT !.content = handle]

----------------------------------------------------------------------------
(* Lines 156-159: the lambda handed to LazyLoad.                           *)

\* lambda: function() -- no default value, the global is read at the call
LoadFncLate(f) == [default |-> FALSE, function |-> NoFunction]

\* lambda function=function: function() -- the default value is evaluated
\* when the lambda is made, so it holds the function of this iteration
LoadFnc(f) == [default |-> TRUE, function |-> f]

\* the function a load_fnc calls: its default value, or else the module
\* global named function at the time of the call
LoadFncTarget(load_fnc, global_function) ==
    IF load_fnc.default THEN load_fnc.function ELSE global_function

\* the arguments a descriptor lambda passes: literals, or for the lambda of
\* line 154 the module globals at the time of the call
CallArgs(f, g_identifier, g_image_size, g_net_name) ==
    IF f.late
    THEN [identifier |-> g_identifier, preprocessing_type |-> f.preprocessing_type,
          image_size |-> g_image_size, net_name |-> g_net_name,
          labels_offset |-> f.labels_offset]
    ELSE [identifier |-> f.a1, preprocessing_type |-> f.preprocessing_type,
          image_size |-> f.image_size, net_name |-> f.net_name,
          labels_offset |-> f.labels_offset]

----------------------------------------------------------------------------
(* TFSlimModel.                                                            *)

\* The module-level code is explored on a part of the descriptor table:
\* these entries of the dict display and these tuples of the list, in their
\* order. The last tuple of the list is among them: it is the one the
\* module globals of the loop keep.
StaticSample == <<1, 12, 17>>

TupleSample == <<5, 17, 38>>

Select(seq, indices) == [n \in 1..Len(indices) |-> seq[indices[n]]]

SampledLiteral == Select(KeyFunctionsLiteral, StaticSample)

SampledTuples == Select(MobilenetTuples, TupleSample)

\* the names TFSlimModel.init can be given as identifier
ModelNames ==
    {SampledLiteral[n].v.a1 :
        n \in {m \in 1..Len(SampledLiteral) :
                  SampledLiteral[m].v.framework = "tfslim"}}
    \cup {Identifier(SampledTuples[n]) : n \in 1..Len(SampledTuples)}

\* what s3.download_folder does: it fills the directory, or it raises having
\* written nothing, or it raises having written part of a checkpoint
FetchOutcomes == {"ok", "fail", "fail_partial"}

\* _find_model_weights without the os.path.isdir test: it always downloads
FindModelWeightsAlwaysFetch(d, model_name, fetch) ==
    LET after == CASE fetch = "ok" -> "populated"
                   [] fetch = "fail" -> "empty"
                   [] OTHER -> "partial"
    IN  [dirs |-> [d EXCEPT ![model_name] = after],
         finds |-> 1, makedirs |-> IF d[model_name] = "absent" THEN 1 ELSE 0,
         fetches |-> 1,
         raised |-> IF fetch = "ok" THEN None ELSE "FetchError"]

\* _find_model_weights, lines 81-93
FindModelWeights(d, model_name, fetch) ==
    IF d[model_name] = "absent"
    THEN LET after == CASE fetch = "ok" -> "populated"
                        [] fetch = "fail" -> "empty"
                        [] OTHER -> "partial"
         IN  [dirs |-> [d EXCEPT ![model_name] = after],
              finds |-> 1, makedirs |-> 1, fetches |-> 1,
              raised |-> IF fetch = "ok" THEN None ELSE "FetchError"]
    ELSE [dirs |-> d, finds |-> 1, makedirs |-> 0, fetches |-> 0,
          raised |-> IF d[model_name] = "empty" THEN "AssertionError" ELSE None]

\* _restore_imagenet_weights, lines 66-78: the Saver restores from the path
\* found; a partly written checkpoint may or may not restore
RestoreImagenetWeights(d, name, fetch, restore_ok) ==
    LET found == FindModelWeights(d, name, fetch)
    IN  IF found.raised # None THEN found
        ELSE IF found.dirs[name] = "partial" /\ ~restore_ok
             THEN [found EXCEPT !.raised = "RestoreError"]
             ELSE found

\* TFSlimModel.init, lines 33-47
TFSlimModel_init(args, d, fetch, restore_ok) ==
    IF args.preprocessing_type \notin {"vgg", "inception"}
    THEN [dirs |-> d, finds |-> 0, makedirs |-> 0, fetches |-> 0,
          raised |-> "AssertionError"]
    ELSE RestoreImagenetWeights(d, args.identifier, fetch, restore_ok)

\* pytorch_model / keras_model, lines 15-28: the constructors of the
\* frameworks build the model or raise
FrameworkModel(d, ctor_ok) ==
    [dirs |-> d, finds |-> 0, makedirs |-> 0, fetches |-> 0,
     raised |-> IF ctor_ok THEN None ELSE "FrameworkError"]

----------------------------------------------------------------------------
(* Module-level code of base_models.                                       *)

\* the keys a client looks up: those of the explored part of the table
ProbeKeys ==
    {SampledLiteral[n].k : n \in 1..Len(SampledLiteral)}
    \cup {Identifier(SampledTuples[n]) : n \in 1..Len(SampledTuples)}

\* the model names whose weights directory may exist before the program runs
CachedNames == {"inception_v1", "mobilenet_v2_0.35_96"}

NoStats == [lookups |-> 0, invocations |-> 0, returned |-> 0, fns |-> {}, inits |-> {}, observed |-> {}]

NoFsLog == [finds |-> 0, makedirs |-> 0, fetches |-> 0]

\* the dict display of lines 102-134: entry n holds the n-th lambda
Numbered(entries) ==
    [n \in 1..Len(entries) |->
        [k |-> entries[n].k, v |-> [entries[n].v EXCEPT !.fid = n]]]

InitCommon ==
    /\ pc = "define"
    /\ i = 0
    /\ _key_functions = <<>>
    /\ version = 0 /\ multiplier = 0 /\ image_size = 0
    /\ identifier = None /\ net_name = None
    /\ key = None /\ function = NoFunction
    /\ base_model_pool = <<>>
    /\ raised = None
    /\ op = <<None, None>>
    /\ stats = [k \in ProbeKeys |-> NoStats]
    /\ fs_log = [n \in ModelNames |-> NoFsLog]
    /\ uses = 0
    /\ ml_brain_pool = <<>> /\ cornet_brain_pool = <<>>
    /\ brain_translated_pool = <<>>

Init ==
    /\ InitCommon
    /\ static_table = SampledLiteral
    /\ tuples = SampledTuples
    /\ \E cached \in SUBSET CachedNames :
          dirs = [n \in ModelNames |-> IF n \in cached THEN "populated" ELSE "absent"]

\* where the module-level code continues once the loop that runs next has
\* nothing (more) to iterate
AfterDefine(kf, ts) ==
    IF ts # <<>> THEN "expand" ELSE IF kf # <<>> THEN "populate" ELSE "serve"

\* lines 102-134
DefineKeyFunctions ==
    /\ pc = "define"
    /\ _key_functions' = DictLiteral(Numbered(static_table))
    /\ pc' = AfterDefine(_key_functions', tuples)
    /\ i' = 1
    /\ UNCHANGED <<static_table, tuples, version, multiplier, image_size,
                   identifier, net_name, key, function, base_model_pool, raised,
                   dirs, op, stats, fs_log, uses>>
    /\ UNCHANGED merge_vars

\* lines 135-155: one iteration
ExpandStep ==
    /\ pc = "expand"
    /\ i <= Len(tuples)
    /\ version' = tuples[i][1]
    /\ multiplier' = tuples[i][2]
    /\ image_size' = tuples[i][3]
    /\ identifier' = Identifier(tuples[i])
    /\ net_name' = NetName(tuples[i])
    /\ _key_functions' = DictSet(_key_functions, identifier',
                            [MobilenetLambda EXCEPT !.fid = Len(static_table) + i])
    /\ IF i = Len(tuples)
       THEN pc' = "populate" /\ i' = 1
       ELSE pc' = pc /\ i' = i + 1
    /\ UNCHANGED <<static_table, tuples, key, function, base_model_pool, raised,
                   dirs, op, stats, fs_log, uses>>
    /\ UNCHANGED merge_vars

\* base_model_pool[key] = lambda function=function: function()
PoolEntryBare(f) == [lazy |-> FALSE, load_fnc |-> [default |-> TRUE, function |-> f],
                     content |-> 0]

\* base_model_pool[key] = function(): the model is built while populating
PoolEntryEager(f) == [lazy |-> TRUE, load_fnc |-> [default |-> TRUE, function |-> f],
                      content |-> 1]

\* line 159, right-hand side
PoolEntry(f) == LazyLoad(LoadFnc(f))

\* lines 156-159: one iteration
PopulateStep ==
    /\ pc = "populate"
    /\ i <= Len(_key_functions)
    /\ key' = _key_functions[i].k
    /\ function' = _key_functions[i].v
    /\ LET set == UniqueKeyDict_setitem(base_model_pool, key', PoolEntry(function'))
       IN  /\ base_model_pool' = set.d
           /\ raised' = set.raised
           /\ IF set.raised # None THEN pc' = "crashed" /\ i' = i
              ELSE IF i = Len(_key_functions) THEN pc' = "serve" /\ i' = i
              ELSE pc' = pc /\ i' = i + 1
    /\ UNCHANGED <<static_table, tuples, _key_functions, version, multiplier,
                   image_size, identifier, net_name, dirs, op, stats, fs_log, uses>>
    /\ UNCHANGED merge_vars

----------------------------------------------------------------------------
(* Clients of the populated pool.                                          *)

\* base_model_pool.keys()
Keys ==
    /\ pc = "serve"
    /\ uses < MaxUses
    /\ uses' = uses + 1
    /\ op' = <<"keys", None>>
    /\ raised' = None
    /\ UNCHANGED <<pc, i, static_table, tuples, _key_functions, version,
                   multiplier, image_size, identifier, net_name, key, function,
                   base_model_pool, dirs, stats, fs_log>>
    /\ UNCHANGED merge_vars

\* what calling the lambda f does: the model is built or an error is raised
CallFunction(f, d, fetch, ok) ==
    IF f.framework = "tfslim"
    THEN TFSlimModel_init(CallArgs(f, identifier, image_size, net_name), d, fetch, ok)
    ELSE FrameworkModel(d, ok)

\* base_model_pool[k] followed by a use of the model (an attribute access or
\* a call, which LazyLoad forwards to its content after _ensure_loaded)
Use(k) ==
    /\ pc = "serve"
    /\ uses < MaxUses
    /\ DictHas(base_model_pool, k)
    /\ uses' = uses + 1
    /\ op' = <<"use", k>>
    /\ LET entry == DictGet(base_model_pool, k)
       IN  IF entry.lazy /\ ~LazyLoad_needs_load(entry)
           THEN /\ stats' = [stats EXCEPT ![k].lookups = @ + 1,
                                           ![k].observed = @ \cup {entry.content}]
                /\ raised' = None
                /\ UNCHANGED <<base_model_pool, dirs, fs_log>>
           ELSE \E fetch \in FetchOutcomes, ok \in BOOLEAN :
                LET f == LoadFncTarget(entry.load_fnc, function)
                    args == CallArgs(f, identifier, image_size, net_name)
                    r == CallFunction(f, dirs, fetch, ok)
                    handle == stats[k].invocations + 1
                    done == r.raised = None
                IN  /\ raised' = r.raised
                    /\ dirs' = r.dirs
                    /\ fs_log' = IF f.framework = "tfslim"
                                 THEN [fs_log EXCEPT
                                         ![args.identifier].finds = @ + r.finds,
                                         ![args.identifier].makedirs = @ + r.makedirs,
                                         ![args.identifier].fetches = @ + r.fetches]
                                 ELSE fs_log
                    /\ stats' = [stats EXCEPT
                          ![k].lookups = @ + 1,
                          ![k].invocations = @ + 1,
                          ![k].returned = IF done THEN @ + 1 ELSE @,
                          ![k].fns = @ \cup {f.fid},
                          ![k].inits = IF f.framework = "tfslim"
                                       THEN @ \cup {[identifier |-> args.identifier,
                                                     image_size |-> args.image_size,
                                                     net_name |-> args.net_name]}
                                       ELSE @,
                          ![k].observed = IF done THEN @ \cup {handle} ELSE @]
                    /\ base_model_pool' =
                          IF done /\ entry.lazy
                          THEN [base_model_pool EXCEPT
                                  ![DictIndex(base_model_pool, k)].v =
                                      LazyLoad_loaded(entry, handle)]
                          ELSE base_model_pool
    /\ UNCHANGED <<pc, i, static_table, tuples, _key_functions, version,
                   multiplier, image_size, identifier, net_name, key, function>>
    /\ UNCHANGED merge_vars

Next ==
    \/ DefineKeyFunctions
    \/ ExpandStep
    \/ PopulateStep
    \/ Keys
    \/ \E k \in ProbeKeys : Use(k)

Spec == Init /\ [][Next]_vars

----------------------------------------------------------------------------
(* The descriptor table as an input: lists that may name an identifier     *)
(* twice.                                                                  *)

StaticUniverse ==
    {E("resnet-18", Pytorch("resnet18", 224)),
     E("resnet-18", Pytorch("resnet34", 224)),
     E("inception_v1", TFSlim("inception_v1", "inception", 224, 1))}

TupleUniverse == {<<1, 100, 224>>, <<1, 75, 224>>, <<2, 35, 96>>}

SeqsUpTo(S, n) == UNION {[1..m -> S] : m \in 0..n}

InitTable ==
    /\ InitCommon
    /\ static_table \in SeqsUpTo(StaticUniverse, MaxTableLen)
    /\ tuples \in SeqsUpTo(TupleUniverse, MaxTableLen)
    /\ dirs = [n \in ModelNames |-> "absent"]

NextTable ==
    \/ DefineKeyFunctions
    \/ ExpandStep
    \/ PopulateStep

SpecTable == InitTable /\ [][NextTable]_vars

----------------------------------------------------------------------------
(* Module-level code of model_commitments: the committed pools are inputs. *)

PoolKeys == {"x", "y", "z"}

PoolValues == {1, 2, 3}

IsDict(d) == \A m, n \in 1..Len(d) : d[m].k = d[n].k => m = n

Pools ==
    {d \in SeqsUpTo([k : PoolKeys, v : PoolValues], MaxPoolLen) : IsDict(d)}

\* brain_translated_pool = {}: a plain dict, the later entry replaces
PlainDictSetitem(d, k, v) == [raised |-> None, d |-> DictSet(d, k, v)]

\* brain_translated_pool.setdefault(identifier, model): the first entry stays
\* and nothing is raised
SetDefaultSetitem(d, k, v) ==
    [raised |-> None, d |-> IF DictHas(d, k) THEN d ELSE DictSet(d, k, v)]

\* lines 8, 13 and 16: brain_translated_pool is a UniqueKeyDict
brain_translated_pool_setitem(d, k, v) == UniqueKeyDict_setitem(d, k, v)

AfterMl(cornet) == IF cornet # <<>> THEN "merge_cornet" ELSE "done"

InitMerge ==
    /\ i = 1
    /\ static_table = <<>> /\ tuples = <<>>
    /\ _key_functions = <<>>
    /\ version = 0 /\ multiplier = 0 /\ image_size = 0
    /\ identifier = None /\ net_name = None
    /\ key = None /\ function = NoFunction
    /\ base_model_pool = <<>>
    /\ raised = None
    /\ op = <<None, None>>
    /\ stats = [k \in ProbeKeys |-> NoStats]
    /\ fs_log = [n \in ModelNames |-> NoFsLog]
    /\ uses = 0
    /\ dirs = [n \in ModelNames |-> "absent"]
    /\ ml_brain_pool \in Pools
    /\ cornet_brain_pool \in Pools
    /\ brain_translated_pool = <<>>
    /\ pc = IF ml_brain_pool # <<>> THEN "merge_ml" ELSE AfterMl(cornet_brain_pool)

\* lines 12-13: one iteration
MergeMl ==
    /\ pc = "merge_ml"
    /\ i <= Len(ml_brain_pool)
    /\ LET set == brain_translated_pool_setitem(
                      brain_translated_pool, ml_brain_pool[i].k, ml_brain_pool[i].v)
       IN  /\ brain_translated_pool' = set.d
           /\ raised' = set.raised
           /\ IF set.raised # None THEN pc' = "crashed" /\ i' = i
              ELSE IF i = Len(ml_brain_pool)
                   THEN pc' = AfterMl(cornet_brain_pool) /\ i' = 1
                   ELSE pc' = pc /\ i' = i + 1
    /\ UNCHANGED <<ml_brain_pool, cornet_brain_pool>>
    /\ UNCHANGED base_vars

\* lines 15-16: one iteration
MergeCornet ==
    /\ pc = "merge_cornet"
    /\ i <= Len(cornet_brain_pool)
    /\ LET set == brain_translated_pool_setitem(
                      brain_translated_pool, cornet_brain_pool[i].k,
                      cornet_brain_pool[i].v)
       IN  /\ brain_translated_pool' = set.d
           /\ raised' = set.raised
           /\ IF set.raised # None THEN pc' = "crashed" /\ i' = i
              ELSE IF i = Len(cornet_brain_pool)
                   THEN pc' = "done" /\ i' = i
                   ELSE pc' = pc /\ i' = i + 1
    /\ UNCHANGED <<ml_brain_pool, cornet_brain_pool>>
    /\ UNCHANGED base_vars

NextMerge ==
    \/ MergeMl
    \/ MergeCornet

SpecMerge == InitMerge /\ [][NextMerge]_vars

----------------------------------------------------------------------------
(* Properties.                                                             *)

Content(pool, k) == IF DictHas(pool, k) THEN DictGet(pool, k).content ELSE 0

UseStep(k) == op' = <<"use", k>> /\ uses' = uses + 1

ProbedTuples == 1..Len(tuples)

\* C1 -- closure isolation: every TFSlimModel.init call made by realizing
\* the factory of a mobilenet tuple carries the identifier, image_size and
\* net_name of that tuple, and factories of different tuples never make a
\* call with the same bindings.
ClosureIsolation ==
    /\ \A n \in ProbedTuples :
          \A c \in stats[Identifier(tuples[n])].inits :
              /\ c.identifier = Identifier(tuples[n])
              /\ c.image_size = tuples[n][3]
              /\ c.net_name = NetName(tuples[n])
    /\ \A m, n \in ProbedTuples :
          tuples[m] # tuples[n] =>
              stats[Identifier(tuples[m])].inits
                  \cap stats[Identifier(tuples[n])].inits = {}

MergedKeys == DictKeys(ml_brain_pool) \cup DictKeys(cornet_brain_pool)

SharedKeys == DictKeys(ml_brain_pool) \cap DictKeys(cornet_brain_pool)

MergeEnded == pc \in {"done", "crashed"}

RECURSIVE UntilShared(_, _)
UntilShared(d, shared) ==
    IF d = <<>> \/ d[1].k \in shared THEN <<>>
    ELSE <<d[1]>> \o UntilShared(Tail(d), shared)

InvokedExactlyOnce ==
    \A k \in ProbeKeys :
        stats[k].lookups >= 1 =>
            /\ stats[k].invocations = 1
            /\ Cardinality(stats[k].observed) <= 1

\* C3 (amended) -- the factory of k returns at most once; while it has not
\* returned every lookup invokes it, and once it has returned no lookup
\* invokes it again (the invocation that returned is the last one) and every
\* lookup observes the one handle it returned.
IdempotentRealization ==
    \A k \in ProbeKeys :
        /\ stats[k].returned <= 1
        /\ IF Content(base_model_pool, k) = 0
           THEN /\ stats[k].returned = 0
                /\ stats[k].observed = {}
                /\ stats[k].invocations = stats[k].lookups
           ELSE /\ stats[k].returned = 1
                /\ stats[k].observed = {Content(base_model_pool, k)}
                /\ stats[k].invocations = Content(base_model_pool, k)
                /\ stats[k].invocations <= stats[k].lookups

\* a key realized by its first lookup and looked up again
IdempotentRealizationWitness ==
    \E k \in ProbeKeys :
        /\ Content(base_model_pool, k) # 0
        /\ stats[k].lookups >= 3
        /\ stats[k].invocations = 1

\* C4 -- a fetch that fails during realization propagates its error, is not
\* retried inside the lookup, caches nothing, and a later lookup whose
\* realization reaches _find_model_weights for the same name fetches again.
FetchRetriedOnNextLookup ==
    [][\A k \in ProbeKeys : \A n \in ModelNames :
          (UseStep(k) /\ fs_log'[n].finds = fs_log[n].finds + 1) =>
              /\ (dirs[n] = "absent" /\ dirs'[n] # "populated") =>
                    /\ raised' = "FetchError"
                    /\ fs_log'[n].fetches = fs_log[n].fetches + 1
                    /\ Content(base_model_pool', k) = 0
              /\ dirs[n] \in {"empty", "partial"} =>
                    fs_log'[n].fetches = fs_log[n].fetches + 1]_vars

\* the identifiers the descriptor table declares, one per descriptor
DeclaredKeys ==
    [n \in 1..Len(static_table) |-> static_table[n].k]
        \o [n \in 1..Len(tuples) |-> Identifier(tuples[n])]

HasCollision ==
    \E m, n \in 1..Len(DeclaredKeys) : m # n /\ DeclaredKeys[m] = DeclaredKeys[n]

DuplicateRejection ==
    [][/\ (pc = "merge_ml" /\ DictHas(brain_translated_pool, ml_brain_pool[i].k)) =>
             /\ raised' = "KeyError" /\ pc' = "crashed"
             /\ brain_translated_pool' = brain_translated_pool
       /\ (pc = "merge_cornet"
              /\ DictHas(brain_translated_pool, cornet_brain_pool[i].k)) =>
             /\ raised' = "KeyError" /\ pc' = "crashed"
             /\ brain_translated_pool' = brain_translated_pool
             /\ DictGet(brain_translated_pool', cornet_brain_pool[i].k)
                    = DictGet(ml_brain_pool, cornet_brain_pool[i].k)]_vars

\* a second insertion was rejected and the first value is still bound
DuplicateRejectionWitness ==
    /\ pc = "crashed" /\ raised = "KeyError"
    /\ Len(brain_translated_pool) >= 2
    /\ \E k \in SharedKeys :
          /\ DictGet(ml_brain_pool, k) # DictGet(cornet_brain_pool, k)
          /\ DictGet(brain_translated_pool, k) = DictGet(ml_brain_pool, k)

\* C7 -- failed realization is retryable: a lookup of an unrealized entry
\* invokes its factory (also after earlier failures); if the factory raises
\* the entry stays unrealized, if it returns the entry is realized; a lookup
\* of a realized entry raises nothing and invokes nothing.
FailedRealizationRetryable ==
    [][\A k \in ProbeKeys :
          UseStep(k) =>
              LET before == Content(base_model_pool, k)
                  after == Content(base_model_pool', k)
              IN  /\ before = 0 =>
                        /\ stats'[k].invocations = stats[k].invocations + 1
                        /\ raised' # None => after = 0
                        /\ raised' = None => after # 0
                  /\ before # 0 =>
                        /\ stats'[k].invocations = stats[k].invocations
                        /\ after = before
                        /\ raised' = None]_vars

\* a factory that raised on the first lookup and returned on the second,
\* and a third lookup after that
FailedRealizationRetryableWitness ==
    \E k \in ProbeKeys :
        /\ stats[k].invocations = 2
        /\ stats[k].returned = 1
        /\ stats[k].lookups = 3
        /\ Content(base_model_pool, k) = 2

\* C8 -- lazy non-realization: populating the pool and enumerating keys()
\* invoke no factory, and the only step that realizes the entry of k or
\* invokes its factory is a lookup and use of k itself.
LazyNonRealization ==
    [][/\ \A n \in 1..Len(base_model_pool') :
             base_model_pool'[n].v.content
                 # (IF n <= Len(base_model_pool) THEN base_model_pool[n].v.content ELSE 0)
               => pc = "serve" /\ UseStep(base_model_pool'[n].k)
       /\ \A k \in ProbeKeys :
             stats'[k] # stats[k] => pc = "serve" /\ UseStep(k)
       /\ (dirs' # dirs \/ fs_log' # fs_log) =>
             pc = "serve" /\ \E k \in ProbeKeys : UseStep(k)]_vars

\* keys() was enumerated on a pool of which one entry is realized and the
\* others are not
LazyNonRealizationWitness ==
    /\ op = <<"keys", None>>
    /\ \E k \in ProbeKeys :
          /\ Content(base_model_pool, k) # 0
          /\ \A j \in DictKeys(base_model_pool) \ {k} :
                Content(base_model_pool, j) = 0

\* C9 -- the lazy entry stored under k calls the descriptor function
\* registered under k: its load_fnc holds that function, and realizing k
\* never invokes the function of another key.
EntryBoundToOwnFunction ==
    /\ \A n \in 1..Len(base_model_pool) :
          LET k == base_model_pool[n].k
          IN  LoadFncTarget(base_model_pool[n].v.load_fnc, function)
                  = DictGet(_key_functions, k)
    /\ pc = "serve" =>
          \A k \in ProbeKeys :
              stats[k].fns \subseteq {DictGet(_key_functions, k).fid}

\* a key that is not the last one of the population loop was realized
EntryBoundToOwnFunctionWitness ==
    \E k \in ProbeKeys :
        /\ pc = "serve"
        /\ k # key
        /\ stats[k].fns = {DictGet(_key_functions, k).fid}
        /\ function.fid # DictGet(_key_functions, k).fid

\* C10 -- a _find_model_weights call for a name whose directory does not
\* exist creates the directory and fetches once; a call for a name whose
\* directory exists, whatever it holds, neither fetches nor creates; and
\* nothing else touches the directories.
FindModelWeightsContract ==
    [][\A n \in ModelNames :
          IF fs_log'[n].finds = fs_log[n].finds + 1
          THEN IF dirs[n] = "absent"
               THEN /\ dirs'[n] # "absent"
                    /\ fs_log'[n].makedirs = fs_log[n].makedirs + 1
                    /\ fs_log'[n].fetches = fs_log[n].fetches + 1
               ELSE /\ dirs'[n] = dirs[n]
                    /\ fs_log'[n].makedirs = fs_log[n].makedirs
                    /\ fs_log'[n].fetches = fs_log[n].fetches
          ELSE dirs'[n] = dirs[n] /\ fs_log'[n] = fs_log[n]]_vars

\* a name was looked for twice: fetched the first time, found the second
FindModelWeightsContractWitness ==
    \E n \in ModelNames :
        /\ fs_log[n].finds >= 2
        /\ fs_log[n].fetches = 1
        /\ fs_log[n].makedirs = 1

====
